---- MODULE Spec2Model ----
(***************************************************************************)
(* Report rendering and flag validation of clockify-cli.                   *)
(*                                                                         *)
(* internal/output/timeEntry.go: the renderers of a time entry collection  *)
(* (quiet, duration only, JSON, CSV, template, table), each run as a       *)
(* sequence of steps over the caller's slice, a wall clock that advances   *)
(* between steps, and an output sink that may start rejecting writes.      *)
(*                                                                         *)
(* pkg/cmd/time-entry/report/util: ReportFlags.Check, driven the way its   *)
(* tests drive it (set some flags, call Check, look at the error).         *)
(***************************************************************************)
EXTENDS Integers, Sequences, FiniteSets, TLC

VARIABLES
    timeEntries,  \* the caller's slice of dto.TimeEntry
    format,       \* which renderer the caller invoked
    options,      \* TimeEntryOutputOptions (table renderer)
    tmpl,         \* the format string given to TimeEntriesPrintWithTemplate
    pc,           \* position inside the renderer
    idx,          \* loop index of the running range loop (1-based)
    s,            \* the accumulator of sumTimeEntriesDuration
    te,           \* the range loop's variable of TimeEntriesCSVPrint
    tw,           \* the tablewriter: [header, lines]
    buf,          \* csv.Writer's bufio buffer: records not yet in the sink
    bufErr,       \* bufio's sticky error
    clock,        \* what time.Now() returns at this moment
    ticks,        \* how often the clock advanced during the call
    nows,         \* the time.Now() readings used as the end of an open entry
    evals,        \* the data of every template.Execute call, in order
    sinkOk,       \* whether the io.Writer accepts writes
    sink,         \* the writes the io.Writer accepted, in order
    rejected,     \* whether the io.Writer rejected a write
    ret,          \* the renderer's return value, Running until it returns
    rf,           \* a ReportFlags value
    calls,        \* the number of rf.Check() calls so far
    last          \* the latest rf.Check() call: the flags it saw, its error

vars == <<timeEntries, format, options, tmpl, pc, idx, s, te, tw, buf, bufErr,
          clock, ticks, nows, evals, sinkOk, sink, rejected, ret,
          rf, calls, last>>

renderVars == <<timeEntries, format, options, tmpl, pc, idx, s, te, tw, buf,
                bufErr, clock, ticks, nows, evals, sinkOk, sink, rejected, ret>>

flagVars == <<rf, calls, last>>

(***************************************************************************)
(* Bounds of the model.                                                    *)
(***************************************************************************)
\* longest collection handed to a renderer
MaxEntries == 3
\* how often the clock advances during one renderer call
MaxTicks == 2
\* how many times Check is called on one ReportFlags value
MaxCalls == 3

(***************************************************************************)
(* Time.  A time.Time is a count of milliseconds since day 0 00:00:00      *)
(* local time, a time.Duration a count of milliseconds.                    *)
(***************************************************************************)
Second == 1000
Minute == 60 * Second
Hour == 60 * Minute
Day == 24 * Hour

At(d, h, m, sec, ms) == d * Day + h * Hour + m * Minute + sec * Second + ms

\* the clock advances by 0.7 s at a time
TickStep == 7 * (Second \div 10)

\* a nil pointer, and a pointer to v
Nil == <<>>
Ptr(v) == <<v>>
Deref(p) == p[1]

\* Go's integer conversion and % truncate toward zero
Quot(a, b) == IF a >= 0 THEN a \div b ELSE -((-a) \div b)
Rem(a, b) == a - b * Quot(a, b)

\* fmt's %02d
Pad2(n) == IF n >= 0 /\ n < 10 THEN "0" \o ToString(n) ELSE ToString(n)

\* a variant that wraps the hours at 24
durationToStringWrapped(d) ==
    ToString(Rem(Quot(d, Hour), 24)) \o ":" \o Pad2(Rem(Quot(d, Minute), 60))
        \o ":" \o Pad2(Rem(Quot(d, Second), 60))

\* fmt.Sprintf("%d:%02d:%02d", int64(d.Hours()), int64(d.Minutes())%60,
\*             int64(d.Seconds())%60)
durationToString(d) ==
    ToString(Quot(d, Hour)) \o ":" \o Pad2(Rem(Quot(d, Minute), 60))
        \o ":" \o Pad2(Rem(Quot(d, Second), 60))

TIME_FORMAT_FULL == "2006-01-02 15:04:05"
TIME_FORMAT_SIMPLE == "15:04:05"

\* the time of day of t as 15:04:05
ClockOf(t) ==
    Pad2((t \div Hour) % 24) \o ":" \o Pad2((t \div Minute) % 60)
        \o ":" \o Pad2((t \div Second) % 60)

\* t.In(time.Local).Format(layout); the date is shown as the day's number
FormatTime(t, layout) ==
    IF layout = TIME_FORMAT_FULL
    THEN "day" \o ToString(t \div Day) \o " " \o ClockOf(t)
    ELSE ClockOf(t)

(***************************************************************************)
(* dto.TimeEntry values.                                                   *)
(***************************************************************************)
Project1 == [ID |-> "p1", Name |-> "Project One"]
Task1 == [ID |-> "t1", Name |-> "Task One"]
User1 == [ID |-> "u1", Email |-> "u1@x.org", Name |-> "User One"]
Tag1 == [ID |-> "g1", Name |-> "dev"]
Tag2 == [ID |-> "g2", Name |-> "ops"]

EmptyProject == [ID |-> "", Name |-> ""]
EmptyTask == [ID |-> "", Name |-> ""]
EmptyUser == [ID |-> "", Email |-> "", Name |-> ""]

EntryA ==
    [ID |-> "a", Description |-> "write report",
     Start |-> At(2, 10, 0, 0, 0), End |-> Ptr(At(2, 10, 30, 0, 0)),
     Project |-> Ptr(Project1), Task |-> Ptr(Task1), User |-> Ptr(User1),
     Tags |-> <<Tag1, Tag2>>]

EntryB ==
    [ID |-> "b", Description |-> "still running",
     Start |-> At(2, 11, 0, 0, 0), End |-> Nil,
     Project |-> Nil, Task |-> Nil, User |-> Nil,
     Tags |-> <<>>]

EntryC ==
    [ID |-> "c", Description |-> "overnight",
     Start |-> At(0, 9, 0, 0, 250), End |-> Ptr(At(1, 10, 1, 1, 0)),
     Project |-> Ptr(Project1), Task |-> Nil, User |-> Ptr(User1),
     Tags |-> <<Tag1>>]

EntryD ==
    [ID |-> "d", Description |-> "just started",
     Start |-> At(2, 11, 14, 59, 500), End |-> Nil,
     Project |-> Nil, Task |-> Ptr(Task1), User |-> Nil,
     Tags |-> <<Tag2>>]

EntryPool == {EntryA, EntryB, EntryC, EntryD}

Collections == UNION {[1..n -> EntryPool] : n \in 0..MaxEntries}

\* the wall clock when the renderer is called
StartOfCall == At(2, 11, 15, 0, 0)


(***************************************************************************)
(* The output sink and the renderers' return values.                       *)
(* A write is a sequence of strings: the fields of a CSV record, the cells *)
(* of a table row, or the one string of a line or of a piece of text.      *)
(***************************************************************************)
Running == "running"
NoError == "nil"
WriteError == "write error"
ParseError == "template: parse error"
ExecError == "template: exec error"

\* w.Write for each of rows, in order: the sink takes them or rejects them
Emit(rows) ==
    /\ sink' = IF sinkOk THEN sink \o rows ELSE sink
    /\ rejected' = (rejected \/ (rows # <<>> /\ ~sinkOk))

\* the error of those writes
EmitErr(rows) == IF rows # <<>> /\ ~sinkOk THEN WriteError ELSE NoError

Return(err) == ret' = err /\ pc' = "done"

RECURSIVE Join(_, _)
\* strings.Join
Join(strs, sep) ==
    IF strs = <<>> THEN ""
    ELSE IF Len(strs) = 1 THEN strs[1]
    ELSE strs[1] \o sep \o Join(Tail(strs), sep)

\* s[i] = fmt.Sprintf("%s (%s)", t.Name, t.ID)
tagsToStringSlice(tags) ==
    [i \in 1..Len(tags) |-> tags[i].Name \o " (" \o tags[i].ID \o ")"]

\* end := time.Now(); if End != nil { end = *End }; end.Sub(Start)
EndOf(t, now) == IF t.End # Nil THEN Deref(t.End) ELSE now
entryDuration(t, now) == EndOf(t, now) - t.Start

\* the reading of time.Now() kept when it is the end of an open entry
Sampled(t, i, now) ==
    IF t.End = Nil THEN Append(nows, [entry |-> i, now |-> now]) ELSE nows

(***************************************************************************)
(* The options of the table renderer.                                      *)
(***************************************************************************)
DefaultOptions ==
    [TimeFormat |-> TIME_FORMAT_SIMPLE, ShowTasks |-> FALSE,
     ShowTotalDuration |-> FALSE]
WithShowTasks(o) == [o EXCEPT !.ShowTasks = TRUE]
WithTotalDuration(o) == [o EXCEPT !.ShowTotalDuration = TRUE]
WithTimeFormat(o, layout) == [o EXCEPT !.TimeFormat = layout]

TableOptions ==
    {DefaultOptions, WithShowTasks(DefaultOptions),
     WithTotalDuration(DefaultOptions),
     WithTotalDuration(WithShowTasks(DefaultOptions)),
     WithTimeFormat(WithTotalDuration(DefaultOptions), TIME_FORMAT_FULL)}

(***************************************************************************)
(* Templates: whether the text parses, and the nodes it parses to.         *)
(***************************************************************************)
\* "{{"
TemplateBad == [parses |-> FALSE, nodes |-> <<>>]
\* "{{if .First}}>{{end}}{{.ID}}{{if .Last}}<{{end}}"
TemplateMarks == [parses |-> TRUE, nodes |-> <<"First", "ID", "Last">>]
\* "{{.ID}} {{.Project.Name}}"
TemplateProject == [parses |-> TRUE, nodes |-> <<"ID", "Project.Name">>]
\* "{{.Nope}}"
TemplateUnknown == [parses |-> TRUE, nodes |-> <<"Nope">>]

\* "{{.Project.Name}}"
TemplateProjectOnly == [parses |-> TRUE, nodes |-> <<"Project.Name">>]

Templates ==
    {TemplateBad, TemplateMarks, TemplateProject, TemplateUnknown,
     TemplateProjectOnly}

\* template.New("tmpl").Funcs(funcMap).Parse(format)
Parse(f) == IF f.parses THEN NoError ELSE ParseError

\* a variant that compares the index with the length
LastOffByOne(i, n) == i = n

\* First: i == 0, Last: i == (len(timeEntries) - 1), i counted from 0
First(i) == i = 0
Last(i, n) == i = n - 1

\* the data one Execute call is given
ExecData(i) ==
    [TimeEntry |-> timeEntries[i + 1], index |-> i, First |-> First(i),
     Last |-> Last(i, Len(timeEntries))]

\* one node of the template on data: the text it writes, or an error
\* (a field of a nil pointer, a field the data does not have)
EvalNode(node, data) ==
    CASE node = "ID" -> [out |-> <<data.TimeEntry.ID>>, err |-> FALSE]
      [] node = "First" ->
            [out |-> IF data.First THEN <<">">> ELSE <<>>, err |-> FALSE]
      [] node = "Last" ->
            [out |-> IF data.Last THEN <<"<">> ELSE <<>>, err |-> FALSE]
      [] node = "Project.Name" ->
            IF data.TimeEntry.Project = Nil
            THEN [out |-> <<>>, err |-> TRUE]
            ELSE [out |-> <<Deref(data.TimeEntry.Project).Name>>,
                  err |-> FALSE]
      [] OTHER -> [out |-> <<>>, err |-> TRUE]

RECURSIVE Execute(_, _)
\* t.Execute walks the nodes in order, writing as it goes, up to the first
\* node that fails: the pieces written, and whether a node failed
Execute(nodes, data) ==
    IF nodes = <<>> THEN [outs |-> <<>>, err |-> FALSE]
    ELSE LET r == EvalNode(Head(nodes), data) IN
         IF r.err THEN [outs |-> <<>>, err |-> TRUE]
         ELSE LET rest == Execute(Tail(nodes), data) IN
              [outs |-> [k \in 1..Len(r.out) |-> <<r.out[k]>>] \o rest.outs,
               err |-> rest.err]

(***************************************************************************)
(* The table renderer's rows.                                              *)
(***************************************************************************)
Header ==
    <<"ID", "Start", "End", "Dur", "Project", "Description", "Tags">>

\* line = append(line[:5], line[5:]...); line[5] = cell
\* (the append copies line[5:] onto itself: line[:5] has room for it)
showTasks(line, cell) ==
    [SubSeq(line, 1, 5) \o SubSeq(line, 6, Len(line)) EXCEPT ![6] = cell]

tableHeader(o) == IF o.ShowTasks THEN showTasks(Header, "Task") ELSE Header

taskCell(t) ==
    IF t.Task # Nil
    THEN Deref(t.Task).Name \o " (" \o Deref(t.Task).ID \o ")"
    ELSE ""

tableLine(t, now, o) ==
    LET line == <<t.ID,
                  FormatTime(t.Start, o.TimeFormat),
                  FormatTime(EndOf(t, now), o.TimeFormat),
                  durationToString(entryDuration(t, now)),
                  IF t.Project # Nil THEN Deref(t.Project).Name ELSE "",
                  t.Description,
                  Join(tagsToStringSlice(t.Tags), ", ")>>
    IN IF o.ShowTasks THEN showTasks(line, taskCell(t)) ELSE line

\* line := make([]string, len(header)); line[0] = "TOTAL"; line[3] = total
totalLine(header, total) ==
    [k \in 1..Len(header) |->
        IF k = 1 THEN "TOTAL" ELSE IF k = 4 THEN total ELSE ""]

(***************************************************************************)
(* The CSV renderer's records.                                             *)
(***************************************************************************)
csvHeader ==
    <<"id", "description", "project.id", "project.name", "task.id",
      "task.name", "start", "end", "duration", "user.id", "user.email",
      "user.name", "tags...">>

\* format := func(t *time.Time) string
csvFormat(t) == IF t = Nil THEN "" ELSE FormatTime(Deref(t), TIME_FORMAT_FULL)

\* if te.User == nil { te.User = &dto.User{} }; the same for te.Task
fillDefaults(e) ==
    [e EXCEPT !.User = IF e.User = Nil THEN Ptr(EmptyUser) ELSE e.User,
              !.Task = IF e.Task = Nil THEN Ptr(EmptyTask) ELSE e.Task]

\* a variant that leaves the project fields out when there is no project
csvRecordShort(e, now) ==
    LET p == IF e.Project # Nil THEN <<Deref(e.Project).ID,
                                       Deref(e.Project).Name>> ELSE <<>>
    IN <<e.ID, e.Description>> \o p \o
       <<Deref(e.Task).ID, Deref(e.Task).Name,
         csvFormat(Ptr(e.Start)), csvFormat(e.End),
         durationToString(entryDuration(e, now)),
         Deref(e.User).ID, Deref(e.User).Email, Deref(e.User).Name>>
       \o tagsToStringSlice(e.Tags)

\* append(arr, tagsToStringSlice(te.Tags)...), e the loop variable after its
\* User and Task were filled in
csvRecord(e, now) ==
    LET p == IF e.Project # Nil THEN Deref(e.Project) ELSE EmptyProject
    IN <<e.ID, e.Description, p.ID, p.Name,
         Deref(e.Task).ID, Deref(e.Task).Name,
         csvFormat(Ptr(e.Start)), csvFormat(e.End),
         durationToString(entryDuration(e, now)),
         Deref(e.User).ID, Deref(e.User).Email, Deref(e.User).Name>>
       \o tagsToStringSlice(e.Tags)

\* json.NewEncoder(w).Encode(t): one write of the whole array, an entry shown
\* by its ID
jsonEncode(entries) ==
    <<"[">> \o [k \in 1..Len(entries) |-> entries[k].ID] \o <<"]">>

(***************************************************************************)
(* A renderer call.                                                        *)
(***************************************************************************)
Formats == {"quiet", "duration", "json", "csv", "template", "table"}

\* where each renderer starts
StartPc(f) ==
    CASE f = "quiet" -> "quiet"
      [] f = "duration" -> "sum"
      [] f = "json" -> "json"
      [] f = "csv" -> "csv.header"
      [] f = "template" -> "tmpl.parse"
      [] f = "table" -> "table.header"

\* fmt.Fprintln's line end
NL == "\n"

N == Len(timeEntries)

InitLocals ==
    /\ idx = 1
    /\ s = 0
    /\ te = Nil
    /\ tw = [header |-> <<>>, lines |-> <<>>]
    /\ buf = <<>>
    /\ bufErr = FALSE
    /\ clock = StartOfCall
    /\ ticks = 0
    /\ nows = <<>>
    /\ evals = <<>>
    /\ sinkOk = TRUE
    /\ sink = <<>>
    /\ rejected = FALSE
    /\ ret = Running

InitRender ==
    /\ timeEntries \in Collections
    /\ format \in Formats
    /\ options \in (IF format = "table" THEN TableOptions ELSE {DefaultOptions})
    /\ tmpl \in (IF format = "template" THEN Templates ELSE {TemplateBad})
    /\ pc = StartPc(format)
    /\ InitLocals

\* no renderer is running
InitNoRender ==
    /\ timeEntries = <<>>
    /\ format = "quiet"
    /\ options = DefaultOptions
    /\ tmpl = TemplateBad
    /\ pc = "done"
    /\ InitLocals

\* time passes while the renderer runs
Tick ==
    /\ pc # "done"
    /\ ticks < MaxTicks
    /\ clock' = clock + TickStep
    /\ ticks' = ticks + 1
    /\ UNCHANGED flagVars
    /\ UNCHANGED <<timeEntries, format, options, tmpl, pc, idx, s, te, tw, buf,
                   bufErr, nows, evals, sinkOk, sink, rejected, ret>>

\* the reader of the output goes away (a broken pipe)
BreakSink ==
    /\ pc # "done"
    /\ sinkOk
    /\ sinkOk' = FALSE
    /\ UNCHANGED flagVars
    /\ UNCHANGED <<timeEntries, format, options, tmpl, pc, idx, s, te, tw, buf,
                   bufErr, clock, ticks, nows, evals, sink, rejected, ret>>

(* TimeEntriesPrintQuietly *)
QuietPrint ==
    /\ pc = "quiet"
    /\ idx <= N
    /\ Emit(<< <<timeEntries[idx].ID \o NL>> >>)
    /\ idx' = idx + 1
    /\ UNCHANGED flagVars
    /\ UNCHANGED <<timeEntries, format, options, tmpl, pc, s, te, tw, buf,
                   bufErr, clock, ticks, nows, evals, sinkOk, ret>>

QuietReturn ==
    /\ pc = "quiet"
    /\ idx > N
    /\ Return(NoError)
    /\ UNCHANGED flagVars
    /\ UNCHANGED <<timeEntries, format, options, tmpl, idx, s, te, tw, buf,
                   bufErr, clock, ticks, nows, evals, sinkOk, sink, rejected>>

(* sumTimeEntriesDuration, one iteration of its loop *)
SumStep ==
    /\ pc = "sum"
    /\ idx <= N
    /\ s' = s + entryDuration(timeEntries[idx], clock)
    /\ nows' = Sampled(timeEntries[idx], idx, clock)
    /\ idx' = idx + 1
    /\ UNCHANGED flagVars
    /\ UNCHANGED <<timeEntries, format, options, tmpl, pc, te, tw, buf, bufErr,
                   clock, ticks, evals, sinkOk, sink, rejected, ret>>

SumReturn ==
    /\ pc = "sum"
    /\ idx > N
    /\ pc' = IF format = "duration" THEN "duration.print" ELSE "table.total"
    /\ UNCHANGED flagVars
    /\ UNCHANGED <<timeEntries, format, options, tmpl, idx, s, te, tw, buf,
                   bufErr, clock, ticks, nows, evals, sinkOk, sink, rejected,
                   ret>>

(* timeEntriesTotalDurationOnly with f = durationToString *)
DurationPrint ==
    /\ pc = "duration.print"
    /\ LET rows == << <<durationToString(s) \o NL>> >> IN
        /\ Emit(rows)
        /\ Return(EmitErr(rows))
    /\ UNCHANGED flagVars
    /\ UNCHANGED <<timeEntries, format, options, tmpl, idx, s, te, tw, buf,
                   bufErr, clock, ticks, nows, evals, sinkOk>>

(* TimeEntriesJSONPrint *)
JSONPrint ==
    /\ pc = "json"
    /\ LET rows == <<jsonEncode(timeEntries)>> IN
        /\ Emit(rows)
        /\ Return(EmitErr(rows))
    /\ UNCHANGED flagVars
    /\ UNCHANGED <<timeEntries, format, options, tmpl, idx, s, te, tw, buf,
                   bufErr, clock, ticks, nows, evals, sinkOk>>

(* csv.Writer.Write on a bufio.Writer: the record stays in the buffer, or   *)
(* (spill) the buffer is full and goes to the sink with it                 *)
CsvWriteErr(spill) == bufErr \/ (spill /\ ~sinkOk)

CsvWrite(rec, spill) ==
    IF bufErr THEN UNCHANGED <<buf, bufErr, sink, rejected>>
    ELSE IF ~spill
    THEN buf' = Append(buf, rec) /\ UNCHANGED <<bufErr, sink, rejected>>
    ELSE IF sinkOk
    THEN /\ sink' = sink \o buf \o <<rec>>
         /\ buf' = <<>>
         /\ UNCHANGED <<bufErr, rejected>>
    ELSE /\ bufErr' = TRUE
         /\ rejected' = TRUE
         /\ UNCHANGED <<buf, sink>>

(* TimeEntriesCSVPrint *)
CSVHeader ==
    /\ pc = "csv.header"
    /\ \E spill \in BOOLEAN :
        /\ CsvWrite(csvHeader, spill)
        /\ IF CsvWriteErr(spill) THEN Return(WriteError)
           ELSE pc' = "csv.loop" /\ ret' = ret
    /\ UNCHANGED flagVars
    /\ UNCHANGED <<timeEntries, format, options, tmpl, idx, s, te, tw,
                   clock, ticks, nows, evals, sinkOk>>

\* a variant whose loop variable is the slice's element itself
CSVRowAliased ==
    /\ pc = "csv.loop"
    /\ idx <= N
    /\ \E spill \in BOOLEAN :
        LET e == fillDefaults(timeEntries[idx]) IN
        /\ te' = Ptr(e)
        /\ timeEntries' = [timeEntries EXCEPT ![idx] = e]
        /\ nows' = Sampled(e, idx, clock)
        /\ CsvWrite(csvRecord(e, clock), spill)
        /\ IF CsvWriteErr(spill) THEN Return(WriteError) /\ idx' = idx
           ELSE idx' = idx + 1 /\ UNCHANGED <<pc, ret>>
    /\ UNCHANGED flagVars
    /\ UNCHANGED <<format, options, tmpl, s, tw, clock, ticks,
                   evals, sinkOk>>

\* te is the loop's own copy of timeEntries[idx]
CSVRow ==
    /\ pc = "csv.loop"
    /\ idx <= N
    /\ \E spill \in BOOLEAN :
        LET e == fillDefaults(timeEntries[idx]) IN
        /\ te' = Ptr(e)
        /\ nows' = Sampled(e, idx, clock)
        /\ CsvWrite(csvRecord(e, clock), spill)
        /\ IF CsvWriteErr(spill) THEN Return(WriteError) /\ idx' = idx
           ELSE idx' = idx + 1 /\ UNCHANGED <<pc, ret>>
    /\ UNCHANGED flagVars
    /\ UNCHANGED <<timeEntries, format, options, tmpl, s, tw, clock, ticks,
                   evals, sinkOk>>

\* w.Flush(); return w.Error()
CSVFlush ==
    /\ pc = "csv.loop"
    /\ idx > N
    /\ IF buf = <<>> \/ bufErr
       THEN UNCHANGED <<buf, bufErr, sink, rejected>>
       ELSE IF sinkOk
       THEN sink' = sink \o buf /\ buf' = <<>> /\ UNCHANGED <<bufErr, rejected>>
       ELSE bufErr' = TRUE /\ rejected' = TRUE /\ UNCHANGED <<buf, sink>>
    /\ Return(IF bufErr' THEN WriteError ELSE NoError)
    /\ UNCHANGED flagVars
    /\ UNCHANGED <<timeEntries, format, options, tmpl, idx, s, te, tw,
                   clock, ticks, nows, evals, sinkOk>>

(* TimeEntriesPrintWithTemplate *)
TmplParse ==
    /\ pc = "tmpl.parse"
    /\ IF Parse(tmpl) # NoError THEN Return(Parse(tmpl))
       ELSE pc' = "tmpl.exec" /\ ret' = ret
    /\ UNCHANGED flagVars
    /\ UNCHANGED <<timeEntries, format, options, tmpl, idx, s, te, tw, buf,
                   bufErr, clock, ticks, nows, evals, sinkOk, sink, rejected>>

\* a variant that drops Execute's error and goes on
TmplExecIgnoringError ==
    /\ pc = "tmpl.exec"
    /\ idx <= N
    /\ LET data == ExecData(idx - 1)
           r == Execute(tmpl.nodes, data)
       IN /\ evals' = Append(evals, [index |-> data.index,
                                     First |-> data.First, Last |-> data.Last])
          /\ Emit(r.outs)
          /\ pc' = "tmpl.nl" /\ ret' = ret
    /\ UNCHANGED flagVars
    /\ UNCHANGED <<timeEntries, format, options, tmpl, idx, s, te, tw, buf,
                   bufErr, clock, ticks, nows, sinkOk>>

\* if err := t.Execute(w, data); err != nil { return err }
TmplExec ==
    /\ pc = "tmpl.exec"
    /\ idx <= N
    /\ LET data == ExecData(idx - 1)
           r == Execute(tmpl.nodes, data)
       IN /\ evals' = Append(evals, [index |-> data.index,
                                     First |-> data.First, Last |-> data.Last])
          /\ Emit(r.outs)
          /\ IF EmitErr(r.outs) # NoError THEN Return(WriteError)
             ELSE IF r.err THEN Return(ExecError)
             ELSE pc' = "tmpl.nl" /\ ret' = ret
    /\ UNCHANGED flagVars
    /\ UNCHANGED <<timeEntries, format, options, tmpl, idx, s, te, tw, buf,
                   bufErr, clock, ticks, nows, sinkOk>>

\* fmt.Fprintln(w)
TmplNewline ==
    /\ pc = "tmpl.nl"
    /\ Emit(<< <<NL>> >>)
    /\ idx' = idx + 1
    /\ pc' = "tmpl.exec"
    /\ UNCHANGED flagVars
    /\ UNCHANGED <<timeEntries, format, options, tmpl, s, te, tw, buf, bufErr,
                   clock, ticks, nows, evals, sinkOk, ret>>

TmplReturn ==
    /\ pc = "tmpl.exec"
    /\ idx > N
    /\ Return(NoError)
    /\ UNCHANGED flagVars
    /\ UNCHANGED <<timeEntries, format, options, tmpl, idx, s, te, tw, buf,
                   bufErr, clock, ticks, nows, evals, sinkOk, sink, rejected>>

(* TimeEntriesPrint *)
TableHeader ==
    /\ pc = "table.header"
    /\ tw' = [header |-> tableHeader(options), lines |-> <<>>]
    /\ pc' = "table.loop"
    /\ UNCHANGED flagVars
    /\ UNCHANGED <<timeEntries, format, options, tmpl, idx, s, te, buf, bufErr,
                   clock, ticks, nows, evals, sinkOk, sink, rejected, ret>>

\* tw.Rich(line, colors)
TableRow ==
    /\ pc = "table.loop"
    /\ idx <= N
    /\ tw' = [tw EXCEPT !.lines =
                Append(@, tableLine(timeEntries[idx], clock, options))]
    /\ nows' = Sampled(timeEntries[idx], idx, clock)
    /\ idx' = idx + 1
    /\ UNCHANGED flagVars
    /\ UNCHANGED <<timeEntries, format, options, tmpl, pc, s, te, buf, bufErr,
                   clock, ticks, evals, sinkOk, sink, rejected, ret>>

\* if options.ShowTotalDuration: call sumTimeEntriesDuration(timeEntries)
TableRowsDone ==
    /\ pc = "table.loop"
    /\ idx > N
    /\ IF options.ShowTotalDuration
       THEN pc' = "sum" /\ idx' = 1 /\ s' = 0
       ELSE pc' = "table.render" /\ UNCHANGED <<idx, s>>
    /\ UNCHANGED flagVars
    /\ UNCHANGED <<timeEntries, format, options, tmpl, te, tw, buf, bufErr,
                   clock, ticks, nows, evals, sinkOk, sink, rejected, ret>>

\* tw.Append(line)
TableTotal ==
    /\ pc = "table.total"
    /\ tw' = [tw EXCEPT !.lines =
                Append(@, totalLine(tw.header, durationToString(s)))]
    /\ pc' = "table.render"
    /\ UNCHANGED flagVars
    /\ UNCHANGED <<timeEntries, format, options, tmpl, idx, s, te, buf, bufErr,
                   clock, ticks, nows, evals, sinkOk, sink, rejected, ret>>

\* tw.Render(); return nil
TableRender ==
    /\ pc = "table.render"
    /\ Emit(<<tw.header>> \o tw.lines)
    /\ Return(NoError)
    /\ UNCHANGED flagVars
    /\ UNCHANGED <<timeEntries, format, options, tmpl, idx, s, te, tw, buf,
                   bufErr, clock, ticks, nows, evals, sinkOk>>

(***************************************************************************)
(* ReportFlags.                                                            *)
(***************************************************************************)
ConflictingFlags ==
    "the following flags can't be used together: billable and not-billable"
DependentFlagMissing == "flag 'client' can't be used without flag 'project'"

\* util.NewReportFlags()
NewReportFlags ==
    [Billable |-> FALSE, NotBillable |-> FALSE, Client |-> "", Project |-> ""]

\* a variant that rejects either billable flag
CheckEither(f) ==
    IF f.Billable \/ f.NotBillable THEN ConflictingFlags
    ELSE IF f.Client # "" /\ f.Project = "" THEN DependentFlagMissing
    ELSE NoError

\* a variant with the dependency the other way round
CheckProjectAlone(f) ==
    IF f.Billable /\ f.NotBillable THEN ConflictingFlags
    ELSE IF f.Client = "" /\ f.Project # "" THEN DependentFlagMissing
    ELSE NoError

\* (rf ReportFlags) Check() error: the rules in order, the first violation wins
Check(f) ==
    IF f.Billable /\ f.NotBillable THEN ConflictingFlags
    ELSE IF f.Client # "" /\ f.Project = "" THEN DependentFlagMissing
    ELSE NoError

Clients == {"", "me"}
Projects == {"", "mine"}

InitFlags ==
    /\ rf = NewReportFlags
    /\ calls = 0
    /\ last = [flags |-> NewReportFlags, err |-> NoError]

\* rf.Billable = b, and so on
SetBillable ==
    /\ \E b \in BOOLEAN : rf' = [rf EXCEPT !.Billable = b]
    /\ UNCHANGED <<calls, last>>
    /\ UNCHANGED renderVars
SetNotBillable ==
    /\ \E b \in BOOLEAN : rf' = [rf EXCEPT !.NotBillable = b]
    /\ UNCHANGED <<calls, last>>
    /\ UNCHANGED renderVars
SetClient ==
    /\ \E c \in Clients : rf' = [rf EXCEPT !.Client = c]
    /\ UNCHANGED <<calls, last>>
    /\ UNCHANGED renderVars
SetProject ==
    /\ \E p \in Projects : rf' = [rf EXCEPT !.Project = p]
    /\ UNCHANGED <<calls, last>>
    /\ UNCHANGED renderVars

\* err := rf.Check()
CallCheck ==
    /\ calls < MaxCalls
    /\ calls' = calls + 1
    /\ last' = [flags |-> rf, err |-> Check(rf)]
    /\ rf' = rf
    /\ UNCHANGED renderVars

(***************************************************************************)
(* The specifications.                                                     *)
(***************************************************************************)
Init == InitRender /\ InitFlags

Next ==
    \/ Tick
    \/ BreakSink
    \/ QuietPrint
    \/ QuietReturn
    \/ SumStep
    \/ SumReturn
    \/ DurationPrint
    \/ JSONPrint
    \/ CSVHeader
    \/ CSVRow
    \/ CSVFlush
    \/ TmplParse
    \/ TmplExec
    \/ TmplNewline
    \/ TmplReturn
    \/ TableHeader
    \/ TableRow
    \/ TableRowsDone
    \/ TableTotal
    \/ TableRender

Spec == Init /\ [][Next]_vars

InitCheck == InitNoRender /\ InitFlags

NextCheck ==
    \/ SetBillable
    \/ SetNotBillable
    \/ SetClient
    \/ SetProject
    \/ CallCheck

SpecCheck == InitCheck /\ [][NextCheck]_vars

(***************************************************************************)
(* Properties.                                                             *)
(***************************************************************************)
Range(f) == {f[k] : k \in DOMAIN f}

IsPrefix(a, b) == Len(a) <= Len(b) /\ SubSeq(b, 1, Len(a)) = a

\* the places of str, from place from on, where the text p stands
Occurs(str, p, from) ==
    {k \in from..(Len(str) - Len(p) + 1) : SubSeq(str, k, k + Len(p) - 1) = p}

RECURSIVE MatchesInOrder(_, _, _)
\* str holds the texts of pats one after the other, anything between them
MatchesInOrder(str, pats, from) ==
    \/ pats = <<>>
    \/ \E k \in Occurs(str, Head(pats), from) :
          MatchesInOrder(str, Tail(pats), k + Len(Head(pats)))

BothBillable(f) == f.Billable /\ f.NotBillable

\* C1: Check() fails with a message that says the flags can't be used
\* together and names billable and then not-billable when Billable and
\* NotBillable are both true; with at most one of the two set (and Client and
\* Project unset) it returns no error, on every call of a sequence of calls
\* on one value whose flags change in between.
C1_BillableConflict ==
    calls > 0 =>
        /\ BothBillable(last.flags) =>
              /\ last.err # NoError
              /\ MatchesInOrder(last.err, <<"can't be used together",
                                            "billable", "not-billable">>, 1)
        /\ (~BothBillable(last.flags) /\ last.flags.Client = ""
                /\ last.flags.Project = "") => last.err = NoError

\* C1 witness: a second or later call on the same value, made after the
\* flags were changed to both true, failed with that message.
C1_Witness ==
    /\ calls >= 2
    /\ BothBillable(last.flags)
    /\ last.err = ConflictingFlags

\* C2: with Billable and NotBillable not both true, Check() fails with
\* exactly "flag 'client' can't be used without flag 'project'" if and only
\* if Client is non-empty and Project is empty, and returns no error
\* whenever Project is non-empty.
C2_ClientNeedsProject ==
    (calls > 0 /\ ~BothBillable(last.flags)) =>
        /\ (last.err = "flag 'client' can't be used without flag 'project'")
              <=> (last.flags.Client # "" /\ last.flags.Project = "")
        /\ last.flags.Project # "" => last.err = NoError

\* C2 witness: Check was called with a client and no project, and failed.
C2_Witness ==
    /\ calls > 0
    /\ ~BothBillable(last.flags)
    /\ last.flags.Client = "me"
    /\ last.flags.Project = ""
    /\ last.err # NoError

\* the time.Now() reading the duration-only renderer took for open entry i
NowOf(i) == (CHOOSE r \in Range(nows) : r.entry = i).now

RECURSIVE SumOfDurations(_)
\* the sum over the first n entries of (end if present, else now) - start
SumOfDurations(n) ==
    IF n = 0 THEN 0
    ELSE LET e == timeEntries[n] IN
         SumOfDurations(n - 1)
            + (IF e.End # Nil THEN Deref(e.End) ELSE NowOf(n)) - e.Start

TwoDigits(n) == ToString(n \div 10) \o ToString(n % 10)

\* d as H:MM:SS: whole hours, then the minutes and the seconds of the rest
HMS(d) ==
    ToString(d \div Hour) \o ":" \o TwoDigits((d % Hour) \div Minute)
        \o ":" \o TwoDigits((d % Minute) \div Second)

C4_SingleNow ==
    \A a \in Range(nows), b \in Range(nows) : a.now = b.now

\* the fixed fields of entry e's CSV record, end the end it was measured to
FixedFields(e, end) ==
    <<e.ID, e.Description,
      IF e.Project = Nil THEN "" ELSE Deref(e.Project).ID,
      IF e.Project = Nil THEN "" ELSE Deref(e.Project).Name,
      IF e.Task = Nil THEN "" ELSE Deref(e.Task).ID,
      IF e.Task = Nil THEN "" ELSE Deref(e.Task).Name,
      FormatTime(e.Start, TIME_FORMAT_FULL),
      IF e.End = Nil THEN "" ELSE FormatTime(Deref(e.End), TIME_FORMAT_FULL),
      durationToString(end - e.Start),
      IF e.User = Nil THEN "" ELSE Deref(e.User).ID,
      IF e.User = Nil THEN "" ELSE Deref(e.User).Email,
      IF e.User = Nil THEN "" ELSE Deref(e.User).Name>>

\* the records the CSV writer was given so far: those in the sink, then
\* those in its buffer
CsvWritten == sink \o buf

\* C5: every record TimeEntriesCSVPrint writes for an entry has the 12 fixed
\* fields in order and then one field per tag, absent project, task or user
\* as empty strings; on success there is the header and one record per
\* entry, and for no entries the header row alone.
C5_CsvColumns ==
    format = "csv" =>
        /\ \A k \in 2..Len(CsvWritten) :
              LET e == timeEntries[k - 1]
                  r == CsvWritten[k]
              IN /\ Len(r) = 12 + Len(e.Tags)
                 /\ SubSeq(r, 1, 12) =
                        FixedFields(e, IF e.End = Nil THEN NowOf(k - 1)
                                       ELSE Deref(e.End))
                 /\ \A g \in 1..Len(e.Tags) :
                        r[12 + g] = e.Tags[g].Name \o " (" \o e.Tags[g].ID
                                        \o ")"
        /\ (pc = "done" /\ ret = NoError) =>
              /\ Len(sink) = N + 1
              /\ sink[1] = csvHeader
              /\ N = 0 => sink = <<csvHeader>>

\* C5 witness: a collection with an entry without project, task and user and
\* an entry with two tags was written in full.
C5_Witness ==
    /\ format = "csv"
    /\ pc = "done"
    /\ ret = NoError
    /\ timeEntries = <<EntryB, EntryA>>
    /\ Len(sink[2]) = 12
    /\ Len(sink[3]) = 14

\* C6: the template is evaluated once per entry in collection order, First
\* true exactly at index 0 and Last exactly at index len-1; a completed pass
\* over n >= 1 entries has exactly one evaluation with First and exactly one
\* with Last, the same one iff n = 1, and an empty collection has none.
C6_FirstLast ==
    format = "template" =>
        /\ \A k \in DOMAIN evals :
              /\ evals[k].index = k - 1
              /\ evals[k].First <=> (k = 1)
              /\ evals[k].Last <=> (k = N)
        /\ Len(evals) <= N
        /\ (pc = "done" /\ ret = NoError) =>
              /\ Len(evals) = N
              /\ Cardinality({k \in DOMAIN evals : evals[k].First})
                    = (IF N >= 1 THEN 1 ELSE 0)
              /\ Cardinality({k \in DOMAIN evals : evals[k].Last})
                    = (IF N >= 1 THEN 1 ELSE 0)
              /\ (\E k \in DOMAIN evals : evals[k].First /\ evals[k].Last)
                    <=> (N = 1)

\* C6 witness: three entries were rendered through a template that marks the
\* first and the last, and the marks are in the output of those two only.
C6_Witness ==
    /\ format = "template"
    /\ tmpl = TemplateMarks
    /\ pc = "done"
    /\ ret = NoError
    /\ timeEntries = <<EntryA, EntryB, EntryC>>
    /\ sink = << <<">">>, <<"a">>, <<NL>>, <<"b">>, <<NL>>, <<"c">>, <<"<">>,
                 <<NL>> >>

\* C7: a renderer that had a write rejected by the sink returns a non-nil
\* error.
C7_WriteErrorReturned ==
    (pc = "done" /\ rejected) => ret # NoError

\* whether evaluating the template fails on the entry at index i
FailsOn(i) == Execute(tmpl.nodes, ExecData(i)).err

\* the indexes the template fails on
Failing == {i \in 0..(N - 1) : FailsOn(i)}

RECURSIVE OutputUpTo(_)
\* what a working sink holds after the entries 0..n-1 were rendered
OutputUpTo(n) ==
    IF n = 0 THEN <<>>
    ELSE OutputUpTo(n - 1)
            \o Execute(tmpl.nodes, ExecData(n - 1)).outs \o << <<NL>> >>

\* C8: if the template fails to parse, an error is returned and nothing is
\* evaluated or written; if evaluation fails on the entry at index k, an
\* error is returned, no entry after k is evaluated or written, and the
\* output of the entries 0..k-1 is in the sink as it was written.
C8_TemplateErrors ==
    format = "template" =>
        /\ ~tmpl.parses =>
              /\ evals = <<>>
              /\ sink = <<>>
              /\ pc = "done" => ret = ParseError
        /\ (tmpl.parses /\ Failing # {}) =>
              LET k == CHOOSE i \in Failing : \A j \in Failing : i <= j IN
              /\ Len(evals) <= k + 1
              /\ (pc = "done" /\ ~rejected) =>
                    /\ ret = ExecError
                    /\ Len(evals) = k + 1
                    /\ sink = OutputUpTo(k)
                                \o Execute(tmpl.nodes, ExecData(k)).outs
              /\ ret = ExecError =>
                    /\ pc = "done"
                    /\ Len(evals) = k + 1
                    /\ IsPrefix(sink, OutputUpTo(k)
                                \o Execute(tmpl.nodes, ExecData(k)).outs)

\* C8 witness: evaluation failed on the second of three entries; the first
\* entry's output is in the sink, the third was not evaluated.
C8_Witness ==
    /\ format = "template"
    /\ tmpl = TemplateProject
    /\ timeEntries = <<EntryA, EntryB, EntryC>>
    /\ ret = ExecError
    /\ Len(evals) = 2
    /\ sink = << <<"a">>, <<"Project One">>, <<NL>>, <<"b">> >>

\* C9: no step of any renderer changes the caller's entries; the empty User
\* or Task TimeEntriesCSVPrint substitutes goes into its loop variable only.
C9_EntriesNotMutated == [][timeEntries' = timeEntries]_vars

\* C9 witness: the CSV renderer returned after it gave its loop variable an
\* empty User and Task for an entry that has none, and the caller's entry
\* still has none.
C9_Witness ==
    /\ format = "csv"
    /\ pc = "done"
    /\ te = Ptr(fillDefaults(EntryB))
    /\ \E k \in 1..N :
          /\ timeEntries[k] = EntryB
          /\ timeEntries[k].User = Nil
          /\ timeEntries[k].Task = Nil
    /\ Deref(te).User = Ptr(EmptyUser)
    /\ Deref(te).Task = Ptr(EmptyTask)

\* C10: with WithShowTasks the header and every row have a Task cell in
\* addition to the ID, Start, End, Dur, Project, Description and Tags cells,
\* all still there with their values, and every row is as long as the header.
C10_TaskColumnAdded ==
    (format = "table" /\ options.ShowTasks /\ pc = "done" /\ ~rejected) =>
        /\ Range(sink[1]) = Range(Header) \cup {"Task"}
        /\ \A k \in 1..N :
              /\ Len(sink[k + 1]) = Len(sink[1])
              /\ taskCell(timeEntries[k]) \in Range(sink[k + 1])
              /\ timeEntries[k].Description \in Range(sink[k + 1])
====
